---------------------------- MODULE Spec2Model ----------------------------
(***************************************************************************)
(* SnapCopy (src/src/App.tsx): the App component's state, its two event    *)
(* handlers (handleImageChange, handleGenerateCopy), the FileReader        *)
(* callback and the continuations of handleGenerateCopy after each await.  *)
(*                                                                         *)
(* JavaScript is single threaded and run-to-completion: every action below *)
(* is one handler or one continuation between two awaits, and the state    *)
(* updates it queues are committed together when it returns.               *)
(***************************************************************************)
EXTENDS Integers, Sequences, FiniteSets, TLC

(***************************************************************************)
(* Bounds of the model.                                                    *)
(***************************************************************************)
\* handleGenerateCopy invocations that get past the image guard
MaxCycles == 2
\* file selections that start a FileReader
MaxSelections == 2
\* file selections that start a FileReader where handleGenerateCopy is invoked directly
MaxDirectSelections == 1

(***************************************************************************)
(* JavaScript values.  A value is a record [t, v]: t is the typeof-like    *)
(* tag and v the payload.  A string is a sequence of chunks; a chunk is a  *)
(* record [k, v]: "chr" is an opaque run of ordinary characters, and the   *)
(* other kinds are the lexical pieces String.split, String.trim and        *)
(* JSON.parse tell apart.                                                  *)
(***************************************************************************)
Undefined == [t |-> "undefined", v |-> <<>>]
Null == [t |-> "null", v |-> <<>>]
Str(chunks) == [t |-> "string", v |-> chunks]
Num(n) == [t |-> "number", v |-> n]
Arr(elems) == [t |-> "array", v |-> elems]
Obj(props) == [t |-> "object", v |-> props]

Chr(s) == [k |-> "chr", v |-> s]
P(s) == [k |-> "punct", v |-> s]
Q(s) == [k |-> "quoted", v |-> s]
WS == [k |-> "ws", v |-> " "]
NullLit == [k |-> "null", v |-> "null"]
NumLit(s) == [k |-> "num", v |-> s]

NoProps == [x \in {} |-> Undefined]
Prop(k, val) == [x \in {k} |-> val]
WithProp(props, k, val) ==
    [x \in (DOMAIN props) \cup {k} |-> IF x = k THEN val ELSE props[x]]

\* ToBoolean, as used by !x, x || y and x && y
Truthy(x) ==
    CASE x.t = "undefined" -> FALSE
      [] x.t = "null" -> FALSE
      [] x.t = "string" -> x.v /= <<>>
      [] x.t = "number" -> x.v /= 0
      [] OTHER -> TRUE

\* x || y
OrElse(x, y) == IF Truthy(x) THEN x ELSE y

\* x.k: a TypeError on null and undefined, undefined where the property is
\* missing (none of the names read here exists on a string, number or array)
Throws(x) == x.t \in {"undefined", "null"}
Get(x, k) ==
    IF x.t = "object" /\ k \in DOMAIN x.v THEN x.v[k] ELSE Undefined

\* x?.k
OptGet(x, k) == IF Throws(x) THEN Undefined ELSE Get(x, k)

\* a[i] with a zero-based index
At(a, i) ==
    IF a.t = "array" /\ i + 1 \in 1..Len(a.v) THEN a.v[i + 1] ELSE Undefined

\* `${x}` inside a template literal
TemplateChunks(x) ==
    CASE x.t = "string" -> x.v
      [] x.t = "undefined" -> <<Chr("undefined")>>
      [] x.t = "null" -> <<Chr("null")>>
      [] OTHER -> <<Chr("[value]")>>

(***************************************************************************)
(* String.prototype.split(sep) for a one-character separator and           *)
(* String.prototype.trim                                                   *)
(***************************************************************************)
RECURSIVE SplitFrom(_, _, _, _)
SplitFrom(chunks, sep, i, cur) ==
    IF i > Len(chunks) THEN <<Str(cur)>>
    ELSE IF chunks[i] = P(sep)
         THEN <<Str(cur)>> \o SplitFrom(chunks, sep, i + 1, <<>>)
         ELSE SplitFrom(chunks, sep, i + 1, Append(cur, chunks[i]))

Split(s, sep) == Arr(SplitFrom(s.v, sep, 1, <<>>))

RECURSIVE TrimLeft(_)
TrimLeft(chunks) ==
    IF chunks /= <<>> /\ Head(chunks) = WS THEN TrimLeft(Tail(chunks))
    ELSE chunks

RECURSIVE TrimRight(_)
TrimRight(chunks) ==
    IF chunks /= <<>> /\ chunks[Len(chunks)] = WS
    THEN TrimRight(SubSeq(chunks, 1, Len(chunks) - 1))
    ELSE chunks

Trim(s) == Str(TrimRight(TrimLeft(s.v)))

(***************************************************************************)
(* JSON.parse: a recursive-descent parser over the chunks of the text.     *)
(* The result is [ok, val, next]; ok = FALSE is the SyntaxError.           *)
(***************************************************************************)
ParseFail == [ok |-> FALSE, val |-> Undefined, next |-> 0]
ParseOk(val, next) == [ok |-> TRUE, val |-> val, next |-> next]

\* insignificant whitespace between tokens
RECURSIVE SkipWs(_, _)
SkipWs(toks, i) ==
    IF i <= Len(toks) /\ toks[i] = WS THEN SkipWs(toks, i + 1) ELSE i

IsTok(toks, i, tok) == i <= Len(toks) /\ toks[i] = tok

NumberValue(tok) == IF tok.v = "0" THEN Num(0) ELSE Num(1)

StringValue(tok) == IF tok.v = "" THEN Str(<<>>) ELSE Str(<<Chr(tok.v)>>)

RECURSIVE ParseValue(_, _)
RECURSIVE ParseElements(_, _, _)
RECURSIVE ParseMembers(_, _, _)

ParseValue(toks, i0) ==
    LET i == SkipWs(toks, i0) IN
    IF i > Len(toks) THEN ParseFail
    ELSE LET tok == toks[i] IN
         CASE tok.k = "null" -> ParseOk(Null, i + 1)
           [] tok.k = "num" -> ParseOk(NumberValue(tok), i + 1)
           [] tok.k = "quoted" -> ParseOk(StringValue(tok), i + 1)
           [] tok = P("[") ->
                LET j == SkipWs(toks, i + 1) IN
                IF IsTok(toks, j, P("]")) THEN ParseOk(Arr(<<>>), j + 1)
                ELSE ParseElements(toks, j, <<>>)
           [] tok = P("{") ->
                LET j == SkipWs(toks, i + 1) IN
                IF IsTok(toks, j, P("}")) THEN ParseOk(Obj(NoProps), j + 1)
                ELSE ParseMembers(toks, j, NoProps)
           [] OTHER -> ParseFail

ParseElements(toks, i, acc) ==
    LET e == ParseValue(toks, i) IN
    IF ~e.ok THEN ParseFail
    ELSE LET j == SkipWs(toks, e.next) IN
         IF IsTok(toks, j, P(",")) THEN ParseElements(toks, j + 1, Append(acc, e.val))
         ELSE IF IsTok(toks, j, P("]")) THEN ParseOk(Arr(Append(acc, e.val)), j + 1)
         ELSE ParseFail

ParseMembers(toks, i0, acc) ==
    LET i == SkipWs(toks, i0) IN
    IF ~(i <= Len(toks) /\ toks[i].k = "quoted") THEN ParseFail
    ELSE LET c == SkipWs(toks, i + 1) IN
         IF ~IsTok(toks, c, P(":")) THEN ParseFail
         ELSE LET e == ParseValue(toks, c + 1) IN
              IF ~e.ok THEN ParseFail
              ELSE LET j == SkipWs(toks, e.next)
                       props == WithProp(acc, toks[i].v, e.val)
                   IN IF IsTok(toks, j, P(",")) THEN ParseMembers(toks, j + 1, props)
                      ELSE IF IsTok(toks, j, P("}")) THEN ParseOk(Obj(props), j + 1)
                      ELSE ParseFail

JSONParse(s) ==
    LET r == ParseValue(s.v, 1) IN
    IF r.ok /\ SkipWs(s.v, r.next) = Len(s.v) + 1 THEN r ELSE ParseFail

(***************************************************************************)
(* The inputs of the model: the files the user can pick, what the vision   *)
(* endpoint can answer, what the text endpoint can answer, and what a      *)
(* failed request rejects with.                                            *)
(***************************************************************************)
Text(s) == Str(<<Chr(s)>>)

FileOf(type, data) == Obj(WithProp(Prop("type", Text(type)), "data", Text(data)))
PngFile == FileOf("image/png", "iVBORw0KGgo=")
JpegFile == FileOf("image/jpeg", "/9j/4AAQSkZJRg==")
Files == {PngFile, JpegFile}
\* event.target.files?.[0] when the dialog was cancelled
NoFile == Undefined

\* FileReader.readAsDataURL: "data:<type>;base64,<payload>"
ReadAsDataURL(file) ==
    Str(<<Chr("data"), P(":")>> \o Get(file, "type").v
        \o <<P(";"), Chr("base64"), P(",")>> \o Get(file, "data").v)

\* reader.result when onloadend fires: the data URL, or null after a read error
ReadResults(file) == {ReadAsDataURL(file), Null}

\* geminiResponse.text: the text of the answer, undefined when it has no text part
Descriptions == {Text("red running sneaker with white sole"), Undefined}

Member(k, val) == <<Q(k), P(":"), WS>> \o val
FullObject(t, kw) ==
    Str(<<P("{"), WS>>
        \o Member("title", <<Q(t)>>) \o <<P(","), WS>>
        \o Member("shortDescription", <<Q("Bold red sneaker for everyday runs.")>>) \o <<P(","), WS>>
        \o Member("longDescription", <<Q("...")>>) \o <<P(","), WS>>
        \o Member("metaTitle", <<Q("Red Runner Sneaker | Shop Now")>>) \o <<P(","), WS>>
        \o Member("metaDescription", <<Q("...")>>) \o <<P(","), WS>>
        \o Member("keywords", <<P("["), Q(kw), P(","), WS, Q("running"), P("]")>>)
        \o <<WS, P("}")>>)
RedRunner == FullObject("Red Runner Sneaker", "sneaker")
BlueRunner == FullObject("Blue Trail Shoe", "trail")
TitleOnly == Str(<<P("{")>> \o Member("title", <<Q("Red Runner Sneaker")>>) \o <<P("}"), WS>>)
Prose == Str(<<Chr("Here is your copy"), P(":"), WS, P("{"), P("}")>>)
JsonString == Str(<<Q("Red Runner Sneaker")>>)
JsonNull == Str(<<NullLit>>)
Blank == Str(<<WS>>)
EmptyString == Str(<<>>)

\* message.content of the first choice
Contents == {RedRunner, BlueRunner, TitleOnly, Prose, JsonString, JsonNull, Blank,
             EmptyString, Null}
Completion(content) ==
    Obj(Prop("choices", Arr(<<Obj(Prop("message", Obj(Prop("content", content))))>>)))
NoChoices == Obj(Prop("choices", Arr(<<>>)))
Completions == {Completion(c) : c \in Contents} \cup {NoChoices}

ErrorOf(message) == Obj(Prop("message", message))
Errors == {ErrorOf(Text("Network Error")), ErrorOf(EmptyString)}
SyntaxError == ErrorOf(Text("Unexpected token"))
TypeError == ErrorOf(Text("Cannot read properties of null"))

(***************************************************************************)
(* The state.                                                              *)
(***************************************************************************)
VARIABLES
    image, title, shortDescription, longDescription, metaTitle,
    metaDescription, keywords, loading,   \* the useState cells of App
    readers,        \* the FileReaders whose read has not finished, oldest first
    selections,     \* files handed to a FileReader so far
    lastSelected,   \* the file of the latest selection that had a file
    failedReads,    \* reads that ended in an error so far
    cycles,         \* the handleGenerateCopy invocations suspended at an await
    started,        \* invocations that got past the image guard so far
    alerts,         \* alert() calls so far
    lastAlert,      \* the text of the latest alert()
    lastWrite,      \* the latest write to the six result cells
    lastEvent       \* the handler or continuation that ran last, and its input

result == <<title, shortDescription, longDescription, metaTitle, metaDescription, keywords>>
imageVars == <<image, readers, selections, lastSelected, failedReads>>
cycleVars == <<cycles, started, alerts, lastAlert, lastWrite>>
vars == <<image, title, shortDescription, longDescription, metaTitle,
          metaDescription, keywords, loading, readers, selections, lastSelected,
          failedReads, cycles, started, alerts, lastAlert, lastWrite, lastEvent>>

Event(op, cycle, arg) == [op |-> op, cycle |-> cycle, arg |-> arg]

\* the six result cells as cleared at the start of a cycle (and as constructed)
Cleared == <<Str(<<>>), Str(<<>>), Str(<<>>), Str(<<>>), Str(<<>>), Arr(<<>>)>>

Init ==
    /\ image = Null
    /\ title = Str(<<>>)
    /\ shortDescription = Str(<<>>)
    /\ longDescription = Str(<<>>)
    /\ metaTitle = Str(<<>>)
    /\ metaDescription = Str(<<>>)
    /\ keywords = Arr(<<>>)
    /\ loading = FALSE
    /\ readers = <<>>
    /\ selections = 0
    /\ lastSelected = NoFile
    /\ failedReads = 0
    /\ cycles = <<>>
    /\ started = 0
    /\ alerts = 0
    /\ lastAlert = Undefined
    /\ lastWrite = Event("init", 0, Undefined)
    /\ lastEvent = Event("init", 0, Undefined)

(***************************************************************************)
(* handleImageChange and the FileReader's onloadend callback               *)
(***************************************************************************)
HandleImageChange(file) ==
    /\ lastEvent' = Event("handleImageChange", 0, file)
    /\ IF Truthy(file)
       THEN /\ selections < MaxSelections
            /\ readers' = Append(readers, file)
            /\ selections' = selections + 1
            /\ lastSelected' = file
            /\ UNCHANGED <<image, failedReads, result, loading, cycleVars>>
       ELSE UNCHANGED <<imageVars, result, loading, cycleVars>>

Without(seq, i) == SubSeq(seq, 1, i - 1) \o SubSeq(seq, i + 1, Len(seq))

OnLoadEnd(r, readerResult) ==
    /\ r \in 1..Len(readers)
    /\ readerResult \in ReadResults(readers[r])
    /\ image' = readerResult
    /\ readers' = Without(readers, r)
    /\ failedReads' = IF readerResult = Null THEN failedReads + 1 ELSE failedReads
    /\ lastEvent' = Event("onloadend", 0, readerResult)
    /\ UNCHANGED <<selections, lastSelected, result, loading, cycleVars>>

(***************************************************************************)
(* handleGenerateCopy: the pieces of its body                              *)
(***************************************************************************)
\* if (!image) return;
HasImage_Always == TRUE
HasImage == Truthy(image)

\* setLoading(true)
Begin_Missing == UNCHANGED loading
Begin == loading' = TRUE

\* setTitle('') ... setKeywords([])
ClearResult_KeepsTitle ==
    /\ UNCHANGED title
    /\ shortDescription' = Str(<<>>)
    /\ longDescription' = Str(<<>>)
    /\ metaTitle' = Str(<<>>)
    /\ metaDescription' = Str(<<>>)
    /\ keywords' = Arr(<<>>)
ClearResult ==
    /\ title' = Str(<<>>)
    /\ shortDescription' = Str(<<>>)
    /\ longDescription' = Str(<<>>)
    /\ metaTitle' = Str(<<>>)
    /\ metaDescription' = Str(<<>>)
    /\ keywords' = Arr(<<>>)

\* image.split(',')[1]
Base64Data(img) == At(Split(img, ","), 1)
\* image.split(';')[0].split(':')[1]
MimeType(img) == At(Split(At(Split(img, ";"), 0), ":"), 1)

VisionRequest(img) ==
    [endpoint |-> "gemini",
     model |-> "gemini-3-flash-preview",
     data |-> Base64Data(img),
     mimeType |-> MimeType(img),
     text |-> Text("Describe this product image in high detail.")]

\* the template literal around ${imageDescription}
Prompt_WithoutDescription(imageDescription) ==
    Str(<<Chr("You are an expert e-commerce copywriter ... Product Description:"),
          Chr("Return the response ONLY in valid JSON format like this: ...")>>)
Prompt(imageDescription) ==
    Str(<<Chr("You are an expert e-commerce copywriter ... Product Description:")>>
        \o TemplateChunks(imageDescription)
        \o <<Chr("Return the response ONLY in valid JSON format like this: ...")>>)

TextRequest(prompt) ==
    [endpoint |-> "groq",
     model |-> "llama-3.3-70b-versatile",
     role |-> "user",
     content |-> prompt,
     response_format |-> "json_object"]

\* groqResponse.choices[0]?.message?.content || '{}'
TextResponse(groqResponse) ==
    OrElse(OptGet(OptGet(At(Get(groqResponse, "choices"), 0), "message"), "content"),
           Str(<<P("{"), P("}")>>))

\* JSON.parse(textResponse.trim()), evaluated once for each completion
JsonResponses == [g \in Completions |-> JSONParse(Trim(TextResponse(g)))]
JsonResponse(groqResponse) == JsonResponses[groqResponse]

\* setTitle(jsonResponse.title) ... setKeywords(jsonResponse.keywords)
SetResult_WithoutKeywords(jsonResponse) ==
    /\ title' = Get(jsonResponse, "title")
    /\ shortDescription' = Get(jsonResponse, "shortDescription")
    /\ longDescription' = Get(jsonResponse, "longDescription")
    /\ metaTitle' = Get(jsonResponse, "metaTitle")
    /\ metaDescription' = Get(jsonResponse, "metaDescription")
    /\ UNCHANGED keywords
SetResult(jsonResponse) ==
    /\ title' = Get(jsonResponse, "title")
    /\ shortDescription' = Get(jsonResponse, "shortDescription")
    /\ longDescription' = Get(jsonResponse, "longDescription")
    /\ metaTitle' = Get(jsonResponse, "metaTitle")
    /\ metaDescription' = Get(jsonResponse, "metaDescription")
    /\ keywords' = Get(jsonResponse, "keywords")

\* catch (error) { console.error(...); alert(...) }
Catch(error) ==
    /\ alerts' = alerts + 1
    /\ lastAlert' = Str(<<Chr("Failed to generate copy: ")>>
                        \o TemplateChunks(OrElse(Get(error, "message"), Text("Unknown error"))))

\* finally { setLoading(false) }
Finally_Missing == UNCHANGED loading
Finally == loading' = FALSE

\* the invocation has returned: nothing of it is left to run
Drop(c) == [x \in (DOMAIN cycles) \ {c} |-> cycles[x]]
Suspend(c, cycle) == [x \in (DOMAIN cycles) \cup {c} |-> IF x = c THEN cycle ELSE cycles[x]]

\* disabled={!image || loading}
TriggerDisabled_IgnoresImage == loading
TriggerDisabled_IgnoresLoading == ~Truthy(image)
TriggerDisabled == ~Truthy(image) \/ loading

(***************************************************************************)
(* handleGenerateCopy up to its first await                                *)
(***************************************************************************)
HandleGenerateCopy ==
    IF ~HasImage
    THEN /\ lastEvent' = Event("handleGenerateCopy", 0, image)
         /\ UNCHANGED <<imageVars, result, loading, cycleVars>>
    ELSE /\ started < MaxCycles
         /\ Begin
         /\ ClearResult
         /\ started' = started + 1
         /\ cycles' = Suspend(started + 1,
                              [pc |-> "vision",
                               image |-> image,
                               imageDescription |-> Undefined,
                               request |-> VisionRequest(image),
                               visionRequests |-> 1,
                               textRequests |-> 0])
         /\ lastWrite' = Event("clear", started + 1, Undefined)
         /\ lastEvent' = Event("handleGenerateCopy", started + 1, image)
         /\ UNCHANGED <<imageVars, alerts, lastAlert>>

\* a click on the button, which the browser delivers only while it is enabled
ClickGenerate == ~TriggerDisabled /\ HandleGenerateCopy

(***************************************************************************)
(* the continuation after await gemini.models.generateContent(...)         *)
(***************************************************************************)
VisionResolves(c, text) ==
    /\ c \in DOMAIN cycles
    /\ cycles[c].pc = "vision"
    /\ cycles' = [cycles EXCEPT ![c] =
                     [pc |-> "text",
                      image |-> @.image,
                      imageDescription |-> text,
                      request |-> TextRequest(Prompt(text)),
                      visionRequests |-> @.visionRequests,
                      textRequests |-> @.textRequests + 1]]
    /\ lastEvent' = Event("visionResolves", c, text)
    /\ UNCHANGED <<imageVars, result, loading, started, alerts, lastAlert, lastWrite>>

VisionRejects(c, error) ==
    /\ c \in DOMAIN cycles
    /\ cycles[c].pc = "vision"
    /\ Catch(error)
    /\ Finally
    /\ cycles' = Drop(c)
    /\ lastEvent' = Event("visionRejects", c, error)
    /\ UNCHANGED <<imageVars, result, started, lastWrite>>

(***************************************************************************)
(* the continuation after await groq.chat.completions.create(...)          *)
(***************************************************************************)
TextResolves(c, groqResponse) ==
    /\ c \in DOMAIN cycles
    /\ cycles[c].pc = "text"
    /\ LET jsonResponse == JsonResponse(groqResponse) IN
       IF ~jsonResponse.ok
       THEN Catch(SyntaxError) /\ UNCHANGED <<result, lastWrite>>
       ELSE IF Throws(jsonResponse.val)
       THEN Catch(TypeError) /\ UNCHANGED <<result, lastWrite>>
       ELSE /\ SetResult(jsonResponse.val)
            /\ lastWrite' = Event("set", c, groqResponse)
            /\ UNCHANGED <<alerts, lastAlert>>
    /\ Finally
    /\ cycles' = Drop(c)
    /\ lastEvent' = Event("textResolves", c, groqResponse)
    /\ UNCHANGED <<imageVars, started>>

TextRejects(c, error) ==
    /\ c \in DOMAIN cycles
    /\ cycles[c].pc = "text"
    /\ Catch(error)
    /\ Finally
    /\ cycles' = Drop(c)
    /\ lastEvent' = Event("textRejects", c, error)
    /\ UNCHANGED <<imageVars, result, started, lastWrite>>

(***************************************************************************)
(* Specifications                                                          *)
(***************************************************************************)
Cycles == 1..MaxCycles

SelectFile == \E file \in Files \cup {NoFile} : HandleImageChange(file)
ReadEnds == \E r \in 1..MaxSelections : \E rr \in {ReadAsDataURL(f) : f \in Files} \cup {Null} :
                OnLoadEnd(r, rr)
VisionSettles ==
    \/ \E c \in Cycles, text \in Descriptions : VisionResolves(c, text)
    \/ \E c \in Cycles, error \in Errors : VisionRejects(c, error)
TextSettles ==
    \/ \E c \in Cycles, groqResponse \in Completions : TextResolves(c, groqResponse)
    \/ \E c \in Cycles, error \in Errors : TextRejects(c, error)

\* the application as the user drives it
Next ==
    \/ SelectFile
    \/ ReadEnds
    \/ ClickGenerate
    \/ VisionSettles
    \/ TextSettles

Spec == Init /\ [][Next]_vars

\* handleGenerateCopy invoked directly, whatever the button's state
NextDirect ==
    \/ (selections < MaxDirectSelections /\ SelectFile)
    \/ ReadEnds
    \/ HandleGenerateCopy
    \/ VisionSettles
    \/ TextSettles

SpecDirect == Init /\ [][NextDirect]_vars

\* every request that was issued is answered or fails
SpecFair == Spec /\ WF_vars(VisionSettles) /\ WF_vars(TextSettles)

(***************************************************************************)
(* Properties                                                              *)
(***************************************************************************)
InFlight == DOMAIN cycles

\* a result cell that the page renders: {title && ...}, {keywords.length > 0 && ...}
Populated(x) == Truthy(x) /\ ~(x.t = "array" /\ x.v = <<>>)
AllPopulated == \A i \in 1..6 : Populated(result[i])
AllEmpty == \A i \in 1..6 : ~Populated(result[i])

\* what a successful cycle assigns to the six cells from its completion
Assigned(groqResponse) ==
    LET json == JsonResponse(groqResponse).val IN
    <<Get(json, "title"), Get(json, "shortDescription"), Get(json, "longDescription"),
      Get(json, "metaTitle"), Get(json, "metaDescription"), Get(json, "keywords")>>

\* the continuation that ran last ended its cycle in the catch block
EndedInCatch ==
    \/ lastEvent.op \in {"visionRejects", "textRejects"}
    \/ /\ lastEvent.op = "textResolves"
       /\ \/ ~JsonResponse(lastEvent.arg).ok
          \/ Throws(JsonResponse(lastEvent.arg).val)
\* the continuation that ran last ended its cycle without an exception
EndedInTry ==
    /\ lastEvent.op = "textResolves"
    /\ JsonResponse(lastEvent.arg).ok
    /\ ~Throws(JsonResponse(lastEvent.arg).val)

Contains(hay, needle) ==
    \E i \in 1..(Len(hay) - Len(needle) + 1) : SubSeq(hay, i, i + Len(needle) - 1) = needle

\* C1: when a cycle ends without an exception, the six result fields are either
\* all non-empty or all empty.
C1_Atomicity == EndedInTry => (AllPopulated \/ AllEmpty)

\* C2: a cycle in which the vision call throws, the text call throws or the
\* response text is not valid JSON ends with the six result fields cleared ('' and
\* []) and loading false.
C2_FailureOutcome ==
    (\/ lastEvent.op \in {"visionRejects", "textRejects"}
     \/ lastEvent.op = "textResolves" /\ ~JsonResponse(lastEvent.arg).ok)
    => (result = Cleared /\ loading = FALSE)
\* the second cycle, started after the first one ended, fails on text that is not JSON
C2_Witness ==
    /\ lastEvent.op = "textResolves"
    /\ lastEvent.cycle = 2
    /\ ~JsonResponse(lastEvent.arg).ok
    /\ alerts >= 1

\* C3: with cycles started by the button only, loading is true exactly while a
\* cycle is in flight, and every state with loading true is followed by one with
\* loading false when every request is answered or fails.
C3_LoadingLifetime ==
    /\ [](loading <=> InFlight /= {})
    /\ loading ~> ~loading
\* the vision call of a cycle has failed and loading is false again
C3_Witness ==
    /\ lastEvent.op = "visionRejects"
    /\ InFlight = {}
    /\ ~loading

\* C4: the button is disabled whenever no image is loaded and whenever a cycle is
\* in flight.
C4_TriggerGating == (~Truthy(image) \/ InFlight /= {}) => TriggerDisabled
\* an image is loaded, a cycle is in flight and another read is still pending
C4_Witness ==
    /\ Truthy(image)
    /\ InFlight /= {}
    /\ readers /= <<>>
    /\ TriggerDisabled

\* C5: with cycles started by the button only, at most one cycle is in flight.
C5_SingleCycle == Cardinality(InFlight) <= 1
\* the second cycle is in flight, the first one has ended
C5_Witness == InFlight = {2}

\* C6: handleGenerateCopy invoked with no image changes neither loading nor the
\* result fields, issues no request and raises no alert; no cycle runs without an
\* image.
C6_NoImageInert ==
    /\ [][(lastEvent'.op = "handleGenerateCopy" /\ ~Truthy(image))
            => UNCHANGED <<loading, result, cycles, started, alerts, lastAlert>>]_vars
    /\ [](\A c \in InFlight : Truthy(cycles[c].image))
\* handleGenerateCopy has just returned at its guard
C6_Witness ==
    /\ lastEvent = Event("handleGenerateCopy", 0, Null)
    /\ started = 0
    /\ ~loading

\* C7: the step that starts a cycle clears the six result fields, sets loading and
\* issues the vision request; the step that ends a cycle in success sets the six
\* fields and resets loading; so, with a single cycle in flight, every state with
\* loading true has the six result fields cleared.
C7_LoadingMeansCleared ==
    /\ [](loading => result = Cleared)
    /\ [][started' = started + 1 =>
            /\ loading' /\ result' = Cleared
            /\ started' \in DOMAIN cycles' /\ cycles'[started'].request.endpoint = "gemini"]_vars
    /\ [][(lastEvent' /= lastEvent /\ EndedInTry') =>
            /\ ~loading' /\ result' = Assigned(lastEvent'.arg)
            /\ lastEvent'.cycle \in DOMAIN cycles /\ cycles' = Drop(lastEvent'.cycle)]_vars
\* the second cycle, started after the first one ended, awaits the text endpoint
C7_Witness ==
    /\ loading
    /\ 2 \in InFlight
    /\ cycles[2].pc = "text"

\* C8: a cycle issues exactly one vision request and at most one text request; the
\* text request is issued only when the vision request has returned, with a prompt
\* that contains the returned description; after a failed vision request the
\* cycle issues none.
C8_TwoStage ==
    /\ [](\A c \in InFlight :
            LET cycle == cycles[c] IN
            /\ cycle.visionRequests = 1
            /\ cycle.textRequests = (IF cycle.pc = "text" THEN 1 ELSE 0)
            /\ cycle.pc = "vision" => cycle.request.endpoint = "gemini"
            /\ cycle.pc = "text" =>
                 /\ cycle.request.endpoint = "groq"
                 /\ cycle.imageDescription.t = "string" =>
                      Contains(cycle.request.content.v, cycle.imageDescription.v))
    /\ [][\A c \in InFlight :
            cycles[c].pc = "vision" =>
              \/ c \notin DOMAIN cycles'
              \/ cycles'[c] = cycles[c]
              \/ /\ lastEvent' = Event("visionResolves", c, cycles'[c].imageDescription)
                 /\ cycles'[c].pc = "text"]_vars
\* a text request is in flight whose cycle got a description from the vision endpoint
C8_Witness ==
    \E c \in InFlight :
        /\ cycles[c].pc = "text"
        /\ cycles[c].imageDescription = Text("red running sneaker with white sole")

\* C9 as claimed: loading is not false while a cycle is in flight, and once all
\* cycles have ended the result fields hold what the cycle that ended last left:
\* the fields of its response if it succeeded, nothing if it failed.
C9_LastTerminatedWins ==
    /\ InFlight /= {} => loading
    /\ (InFlight = {} /\ EndedInTry) => (~loading /\ result = Assigned(lastEvent.arg))
    /\ (InFlight = {} /\ EndedInCatch) => (~loading /\ result = Cleared)
\* C9 as amended: once all cycles have ended, loading is false and the result
\* fields hold what the latest write left: the six values assigned by the cycle
\* that succeeded last, or nothing when no cycle succeeded since the latest
\* cycle started.
C9_LastWriteWins ==
    (InFlight = {} /\ started >= 1) =>
        /\ ~loading
        /\ lastWrite.op \in {"clear", "set"}
        /\ lastWrite.op = "clear" => result = Cleared
        /\ lastWrite.op = "set" => result = Assigned(lastWrite.arg)
\* two cycles overlapped; the one that ended last failed, and the fields hold the
\* result of the other one
C9_Witness ==
    /\ InFlight = {}
    /\ started >= 2
    /\ EndedInCatch
    /\ lastWrite.op = "set"
    /\ lastWrite.cycle /= lastEvent.cycle
    /\ AllPopulated

\* C10: when every read has finished (none of them in an error), the image is the
\* encoding of the file that was selected last.
C10_LatestSelectionShown ==
    (readers = <<>> /\ selections > 0 /\ failedReads = 0)
    => image = ReadAsDataURL(lastSelected)

=============================================================================
